---- MODULE Spec2Model ----
(***************************************************************************)
(* Swim-meet seeding and ranking: the reseeding functions of               *)
(* core/reseeding.py, the ranking of core/service.py and the stored        *)
(* roster of core/db.py as the service operations change it.               *)
(***************************************************************************)
EXTENDS Integers, Sequences, FiniteSets, TLC

VARIABLES
    mode,         \* which function the drawn roster is an input of, or
                  \* which stored event the service works on, "empty"
                  \* when the store holds none
    roster,       \* the list handed to the function under study
    lanes_arg,    \* the lanes_count argument of full_reseed
    call,         \* the last function applied to the roster
    out,          \* the list that call returned
    prev,         \* the list returned by the call before the last one
    places,       \* the id -> place mapping of the ranking
    listed,       \* the ids of the rows of the protocol, in row order
    after,        \* the input list as the caller holds it after the call
    table,        \* the stored swimmers of the event, by id
    lanes_count,  \* the stored event's lanes_count
    pc,           \* the last service operation on the stored event
    snap,         \* the stored swimmers before a mark_dns that was the last
                  \* operation or the one before it, else <<>>
    marked,       \* the ids that the last mark_dns or restore_swimmers was
                  \* given: of the mark_dns before a reseed_event, else {}
    reseeded,     \* whether the stored event was fully reseeded since its
                  \* import
    cs_value,     \* the centiseconds handed to format_cs
    cs_text,      \* the text format_cs returned
    cs_parsed     \* what parse_seed_time_to_cs made of that text

vars == <<mode, roster, lanes_arg, call, out, prev, places, listed, after,
          table, lanes_count, pc, snap, marked, reseeded, cs_value, cs_text, cs_parsed>>

pureVars == <<mode, roster, lanes_arg, call, out, prev, places, listed, after>>
storeVars == <<table, lanes_count, pc, snap, marked, reseeded>>
codecVars == <<cs_value, cs_text, cs_parsed>>

----------------------------------------------------------------------------
(* Bounds of the model *)

MaxSwimmers == 3
MaxRows == 2
(* format_cs is given times of up to MaxMinutes minutes *)
MaxMinutes == 100

(* Optional[int]: None *)
None == -1

(* Sentinels of the sort keys *)
LaneSentinel == 999
HeatSentinel == 999
SoftSeedSentinel == 1000000000
ResultSentinel == 99999999
ListSentinel == 999
(* 10**12 is beyond the 32-bit integers of TLC: in the key of full_reseed an
   integer v is the pair <<v \div Million, v % Million>>, which compares
   lexicographically as v does *)
Million == 1000000
FullSeedSentinelHi == 1000000
DefaultHeat == 1

(* Values of the fields *)
NameValues == {1, 2}
SeedValues == {None, 0, 1}
ResultValues == {None, 0, 1}
MarkValues == {"OK", "DQ"}
LaneCounts == {1, 2}
StoreLaneCounts == {1, 2}
(* a lane number above the lane sentinel *)
BigLane == LaneSentinel + 1
(* <<heat, lane>> as a start list gives them: both absent or both digits *)
Positions == {<<None, None>>, <<0, 1>>, <<1, 0>>, <<1, 1>>, <<1, BigLane>>, <<2, 1>>}

StoreModes == {"store", "results"}

Ids == 1..MaxSwimmers
RowIds == 1..MaxRows

----------------------------------------------------------------------------
(* Python helpers *)

(* x or d, for an Optional[int] x: None and 0 are both falsy *)
Or(x, d) == IF x = None \/ x = 0 THEN d ELSE x

(* bool as a sort key component: False < True *)
B(b) == IF b THEN 1 ELSE 0

(* tuple comparison, tuples of the same length *)
LexLess(a, b) ==
    \E k \in 1..Len(a) :
        /\ a[k] < b[k]
        /\ \A m \in 1..(k - 1) : a[m] = b[m]

(* list.sort / sorted: stable, ascending by key; keys[i] is the key of s[i] *)
RankOf(keys, i) ==
    Cardinality({j \in 1..Len(keys) :
                    \/ LexLess(keys[j], keys[i])
                    \/ (keys[j] = keys[i] /\ j < i)}) + 1

StableSort(s, keys) ==
    [p \in 1..Len(s) |-> s[CHOOSE i \in 1..Len(s) : RankOf(keys, i) = p]]

----------------------------------------------------------------------------
(* core/time_utils.py: a text is a sequence of characters *)

Digits == <<"0", "1", "2", "3", "4", "5", "6", "7", "8", "9">>
NoText == <<"None">>

isdigit(text) ==
    text # <<>> /\ \A i \in 1..Len(text) : \E d \in 1..Len(Digits) : Digits[d] = text[i]

RECURSIVE int(_)
int(text) ==
    IF text = <<>> THEN 0
    ELSE int(SubSeq(text, 1, Len(text) - 1)) * 10
            + ((CHOOSE d \in 1..Len(Digits) : Digits[d] = text[Len(text)]) - 1)

RECURSIVE strip(_)
strip(text) ==
    IF text = <<>> THEN text
    ELSE IF Head(text) = " " THEN strip(Tail(text))
    ELSE IF text[Len(text)] = " " THEN strip(SubSeq(text, 1, Len(text) - 1))
    ELSE text

CommaToDot(text) == [i \in 1..Len(text) |-> IF text[i] = "," THEN "." ELSE text[i]]

(* TIME_RE: one or two digits, then twice a ":" or "." and two digits *)
TimeReMatch(text) ==
    /\ Len(text) \in {7, 8}
    /\ LET n == Len(text) - 6
       IN  /\ isdigit(SubSeq(text, 1, n))
           /\ text[n + 1] \in {":", "."} /\ isdigit(SubSeq(text, n + 2, n + 3))
           /\ text[n + 4] \in {":", "."} /\ isdigit(SubSeq(text, n + 5, n + 6))

(* the str argument of parse_seed_time_to_cs *)
parse_seed_time_to_cs(value) ==
    IF value = NoText THEN None
    ELSE LET text == CommaToDot(strip(value))
             n == Len(text) - 6
             dots == {i \in 1..Len(text) : text[i] = "."}
             dot == CHOOSE i \in dots : \A j \in dots : i <= j
             secs_part == SubSeq(text, 1, dot - 1)
             centis_part == SubSeq(text, dot + 1, Len(text))
         IN  IF text = <<>> THEN None
             ELSE IF TimeReMatch(text)
             THEN (int(SubSeq(text, 1, n)) * 60 + int(SubSeq(text, n + 2, n + 3))) * 100
                      + int(SubSeq(text, n + 5, n + 6))
             ELSE IF dots # {} /\ isdigit(secs_part) /\ isdigit(centis_part)
             THEN int(secs_part) * 100 + int(SubSeq(centis_part \o <<"0", "0">>, 1, 2))
             ELSE IF isdigit(text) THEN int(text) * 100
             ELSE None

(* f"{n:02d}" *)
RECURSIVE Decimal(_)
Decimal(n) ==
    IF n < 10 THEN <<Digits[n + 1]>>
    ELSE Decimal(n \div 10) \o <<Digits[(n % 10) + 1]>>

Format02d(n) == IF n < 10 THEN <<"0">> \o Decimal(n) ELSE Decimal(n)

format_cs(v) ==
    IF v = None THEN <<>>
    ELSE LET total_seconds == v \div 100
             centis == v % 100
             minutes == total_seconds \div 60
             seconds == total_seconds % 60
         IN  Format02d(minutes) \o <<":">> \o Format02d(seconds)
                 \o <<":">> \o Format02d(centis)

----------------------------------------------------------------------------
(* core/models.py *)

(* the result text of a swimmer built with a result time is that time as
   format_cs writes it *)
Swimmer(id, name, seed, heat, lane, rtime, rmark, status) ==
    [id |-> id, full_name |-> name, seed_time_cs |-> seed, heat |-> heat,
     lane |-> lane,
     result_time_raw |-> IF rtime = None THEN NoText ELSE format_cs(rtime),
     result_time_cs |-> rtime, result_status |-> rmark,
     status |-> status]

IsDns(s) == s.status = "DNS"
IsActive(s) == s.status # "DNS"

----------------------------------------------------------------------------
(* core/reseeding.py *)

(* the DNS branch that also drops the result of the swimmer *)
ClearPosition_andResult(s) ==
    [s EXCEPT !.heat = None, !.lane = None,
              !.result_time_raw = NoText, !.result_time_cs = None]

ClearPosition(s) == [s EXCEPT !.heat = None, !.lane = None]

(* the grouping that leaves a swimmer without heat without heat *)
GroupHeat_keepsNone(s) == IF s.heat = 0 THEN DefaultHeat ELSE s.heat

GroupHeat(s) == Or(s.heat, DefaultHeat)

SoftKey(s) ==
    <<Or(s.lane, LaneSentinel), Or(s.seed_time_cs, SoftSeedSentinel), s.full_name>>

PresentationKey(s) ==
    <<Or(s.heat, HeatSentinel), Or(s.lane, LaneSentinel), s.full_name>>

(* CompressGroup with enumerate(active) counting from 0 *)
CompressGroup_zeroBased(swimmers, heat) ==
    LET InGroup(s) == IsActive(s) /\ GroupHeat(s) = heat
        active == SelectSeq(swimmers, InGroup)
        sorted == StableSort(active, [i \in 1..Len(active) |-> SoftKey(active[i])])
    IN  [idx \in 1..Len(sorted) |-> [sorted[idx] EXCEPT !.heat = heat, !.lane = idx - 1]]

(* CompressGroup with active.sort(..., reverse=True) *)
CompressGroup_reversed(swimmers, heat) ==
    LET InGroup(s) == IsActive(s) /\ GroupHeat(s) = heat
        active == SelectSeq(swimmers, InGroup)
        sorted == StableSort(active, [i \in 1..Len(active) |-> SoftKey(active[i])])
        n == Len(sorted)
    IN  [idx \in 1..n |-> [sorted[n + 1 - idx] EXCEPT !.heat = heat, !.lane = idx]]

(* one heat group: the ACTIVE swimmers keyed by heat, in input order, sorted
   and renumbered 1..N *)
CompressGroup(swimmers, heat) ==
    LET InGroup(s) == IsActive(s) /\ GroupHeat(s) = heat
        active == SelectSeq(swimmers, InGroup)
        sorted == StableSort(active, [i \in 1..Len(active) |-> SoftKey(active[i])])
    IN  [idx \in 1..Len(sorted) |-> [sorted[idx] EXCEPT !.heat = heat, !.lane = idx]]

RECURSIVE ExtendGroups(_, _)
ExtendGroups(swimmers, heats) ==
    IF heats = {} THEN <<>>
    ELSE LET heat == CHOOSE h \in heats : \A g \in heats : h <= g
         IN  CompressGroup(swimmers, heat) \o ExtendGroups(swimmers, heats \ {heat})

compress_lanes_within_heats(swimmers) ==
    LET dnsIn == SelectSeq(swimmers, IsDns)
        unchanged == [i \in 1..Len(dnsIn) |-> ClearPosition(dnsIn[i])]
        heats == {GroupHeat(swimmers[i]) : i \in {j \in 1..Len(swimmers) : IsActive(swimmers[j])}}
        result == unchanged \o ExtendGroups(swimmers, heats)
    IN  StableSort(result, [i \in 1..Len(result) |-> PresentationKey(result[i])])

(* FullKey without the leading (seed_time_cs is None) component *)
FullKey_noNoneFlag(s) ==
    LET v == s.seed_time_cs
    IN  IF v = None \/ v = 0
        THEN <<0, FullSeedSentinelHi, 0, s.full_name>>
        ELSE <<0, v \div Million, v % Million, s.full_name>>

FullKey(s) ==
    LET v == s.seed_time_cs
    IN  IF v = None \/ v = 0
        THEN <<B(v = None), FullSeedSentinelHi, 0, s.full_name>>
        ELSE <<B(v = None), v \div Million, v % Million, s.full_name>>

(* full_reseed numbering the positions over all swimmers, DNS included *)
full_reseed_countsDns(swimmers, lanes) ==
    LET all == StableSort(swimmers, [i \in 1..Len(swimmers) |-> FullKey(swimmers[i])])
        seeded == [i \in 1..Len(all) |->
                     IF IsDns(all[i]) THEN ClearPosition(all[i])
                     ELSE [all[i] EXCEPT !.heat = ((i - 1) \div lanes) + 1,
                                         !.lane = ((i - 1) % lanes) + 1]]
    IN  SelectSeq(seeded, IsActive) \o SelectSeq(seeded, IsDns)

full_reseed(swimmers, lanes) ==
    LET dnsIn == SelectSeq(swimmers, IsDns)
        dns == [i \in 1..Len(dnsIn) |-> ClearPosition(dnsIn[i])]
        activeIn == SelectSeq(swimmers, IsActive)
        active == StableSort(activeIn, [i \in 1..Len(activeIn) |-> FullKey(activeIn[i])])
        seeded == [i \in 1..Len(active) |->
                     [active[i] EXCEPT !.heat = ((i - 1) \div lanes) + 1,
                                       !.lane = ((i - 1) % lanes) + 1]]
    IN  seeded \o dns

(* the functions assign to the Swimmer objects of their argument: the caller's
   list holds, in its own order, the objects that the returned list holds *)
InPlace(swimmers, returned) ==
    [i \in 1..Len(swimmers) |->
        returned[CHOOSE j \in 1..Len(returned) : returned[j].id = swimmers[i].id]]

----------------------------------------------------------------------------
(* core/service.py, _build_protocol_html: the ranking *)

RankKey(s) ==
    <<B(s.result_time_cs = None), Or(s.result_time_cs, ResultSentinel), s.full_name>>

Ranked_withDns(swimmers) ==
    StableSort(swimmers, [i \in 1..Len(swimmers) |-> RankKey(swimmers[i])])

Ranked(swimmers) ==
    LET active == SelectSeq(swimmers, IsActive)
    IN  StableSort(active, [i \in 1..Len(active) |-> RankKey(active[i])])

(* places where swimmers of equal result time share a place *)
Places_sharedOnTie(ranked) ==
    LET placed == {i \in 1..Len(ranked) : ranked[i].result_time_cs # None}
    IN  [id \in {ranked[i].id : i \in placed} |->
            LET i == CHOOSE i \in placed : ranked[i].id = id
            IN  1 + Cardinality({j \in placed : j < i
                    /\ ranked[j].result_time_cs # ranked[i].result_time_cs})]

Places(ranked) ==
    LET placed == {i \in 1..Len(ranked) : ranked[i].result_time_cs # None}
    IN  [id \in {ranked[i].id : i \in placed} |->
            CHOOSE i \in placed : ranked[i].id = id]

(* str.lower() of a name: the names 1 and 2 stand for "A" and "a", every
   other name of the model is in lower case *)
Lower(name) == IF name = 1 THEN 2 ELSE name

(* sort_key for sort_by = "place" *)
PlaceSortKey(s) ==
    <<B(s.result_time_cs = None), Or(s.result_time_cs, ResultSentinel), Lower(s.full_name)>>

(* group_key for group_by = "heat" *)
HeatGroupKey(s) == Or(s.heat, HeatSentinel)

SortedRows(swimmers) ==
    StableSort(swimmers, [i \in 1..Len(swimmers) |-> PlaceSortKey(swimmers[i])])

RECURSIVE GroupedRows(_, _)
GroupedRows(swimmers, groups) ==
    IF groups = {} THEN <<>>
    ELSE LET group == CHOOSE g \in groups : \A h \in groups : g <= h
             InGroup(s) == HeatGroupKey(s) = group
         IN  SortedRows(SelectSeq(swimmers, InGroup))
                 \o GroupedRows(swimmers, groups \ {group})

(* the swimmers that get a row of the table, in row order *)
ProtocolRows(swimmers, grouped) ==
    LET rows == IF grouped
                THEN GroupedRows(swimmers,
                        {HeatGroupKey(swimmers[i]) : i \in 1..Len(swimmers)})
                ELSE SortedRows(swimmers)
    IN  [i \in 1..Len(rows) |-> rows[i].id]

----------------------------------------------------------------------------
(* core/db.py: the swimmers table of one event, a function of the row id *)

(* DELETE FROM swimmers, DELETE FROM events, committed *)
clear_all(rows) == <<>>

ListKey(s) ==
    <<IF s.heat = None THEN ListSentinel ELSE s.heat,
      IF s.lane = None THEN ListSentinel ELSE s.lane,
      s.full_name>>

list_swimmers(rows) ==
    LET n == Cardinality(DOMAIN rows)
        byId == [i \in 1..n |-> rows[i]]
    IN  StableSort(byId, [i \in 1..n |-> ListKey(byId[i])])

(* update_swimmer_positions that stores every listed swimmer as ACTIVE *)
update_swimmer_positions_allActive(rows, swimmers) ==
    [id \in DOMAIN rows |->
        IF \E i \in 1..Len(swimmers) : swimmers[i].id = id
        THEN LET s == swimmers[CHOOSE i \in 1..Len(swimmers) : swimmers[i].id = id]
             IN  [rows[id] EXCEPT !.heat = s.heat, !.lane = s.lane, !.status = "OK"]
        ELSE rows[id]]

update_swimmer_positions(rows, swimmers) ==
    [id \in DOMAIN rows |->
        IF \E i \in 1..Len(swimmers) : swimmers[i].id = id
        THEN LET s == swimmers[CHOOSE i \in 1..Len(swimmers) : swimmers[i].id = id]
             IN  [rows[id] EXCEPT !.heat = s.heat, !.lane = s.lane, !.status = s.status]
        ELSE rows[id]]

(* set_dns that sets the status and leaves heat and lane *)
set_dns_statusOnly(rows, swimmer_ids) ==
    [id \in DOMAIN rows |->
        IF id \in swimmer_ids THEN [rows[id] EXCEPT !.status = "DNS"] ELSE rows[id]]

set_dns(rows, swimmer_ids) ==
    IF swimmer_ids = {} THEN rows
    ELSE [id \in DOMAIN rows |->
            IF id \in swimmer_ids
            THEN [rows[id] EXCEPT !.status = "DNS", !.heat = None, !.lane = None]
            ELSE rows[id]]

(* MeetRepository.restore_swimmers: the listed rows become ACTIVE again *)
repo_restore_swimmers(rows, swimmer_ids) ==
    [id \in DOMAIN rows |->
        IF id \in swimmer_ids THEN [rows[id] EXCEPT !.status = "OK"] ELSE rows[id]]

(* set_result that takes the result mark for the status of the swimmer *)
set_result_andStatus(rows, swimmer_id, result_time_raw, result_time_cs, result_status) ==
    [id \in DOMAIN rows |->
        IF id = swimmer_id
        THEN [rows[id] EXCEPT !.result_time_raw = result_time_raw,
                              !.result_time_cs = result_time_cs,
                              !.result_status = result_status,
                              !.status = result_status]
        ELSE rows[id]]

set_result(rows, swimmer_id, result_time_raw, result_time_cs, result_status) ==
    [id \in DOMAIN rows |->
        IF id = swimmer_id
        THEN [rows[id] EXCEPT !.result_time_raw = result_time_raw,
                              !.result_time_cs = result_time_cs,
                              !.result_status = result_status]
        ELSE rows[id]]

(* MeetRepository.save_results: the result fields of every payload row, in
   payload order; a payload row is <<swimmer_id, raw, cs, mark>> *)
RECURSIVE repo_save_results(_, _)
repo_save_results(rows, payload) ==
    IF payload = <<>> THEN rows
    ELSE repo_save_results(
            set_result(rows, payload[1][1], payload[1][2], payload[1][3], payload[1][4]),
            Tail(payload))

----------------------------------------------------------------------------
(* core/service.py *)

(* x.strip() or None *)
StripOrNone(text) == IF strip(text) = <<>> THEN NoText ELSE strip(text)

(* a row of results is <<swimmer_id, result_time_raw, result_mark>>; the marks
   of the model are not blank *)
ResultsPayload(results) ==
    [i \in 1..Len(results) |->
        LET raw == StripOrNone(results[i][2])
        IN  <<results[i][1], raw,
              IF raw # NoText THEN parse_seed_time_to_cs(raw) ELSE None,
              results[i][3]>>]

save_event_results(rows, results) == repo_save_results(rows, ResultsPayload(results))

(* reseed_event that computes the positions and does not store them *)
reseed_event_noWriteBack(rows, lanes, m) == rows

reseed_event(rows, lanes, m) ==
    LET swimmers == list_swimmers(rows)
        updated == IF m = "full" THEN full_reseed(swimmers, lanes)
                   ELSE compress_lanes_within_heats(swimmers)
    IN  update_swimmer_positions(rows, updated)

----------------------------------------------------------------------------
(* The inputs *)

(* the rows get their ids in list order *)
Rosters(Entries, ids) ==
    {[id \in ids |-> [r[id] EXCEPT !.id = id]] : r \in [ids -> Entries]}

SoftEntries ==
    {Swimmer(0, n, None, p[1], p[2], None, "OK", "OK") :
        n \in NameValues, p \in Positions}
    \cup {Swimmer(0, n, 1, 1, 1, 1, "DQ", "OK") : n \in NameValues}
    \cup {Swimmer(0, 2, 0, 1, 1, None, "OK", "OK")}
    \cup {Swimmer(0, 1, None, None, None, None, "OK", "DNS"),
          Swimmer(0, 1, None, 1, 1, 0, "OK", "DNS")}

FullEntries ==
    {Swimmer(0, n, sd, None, None, None, "OK", "OK") :
        n \in NameValues, sd \in SeedValues}
    \cup {Swimmer(0, n, sd, 2, 2, 1, "DQ", "OK") :
        n \in NameValues, sd \in SeedValues}
    \cup {Swimmer(0, 1, 0, 1, 1, 0, "OK", "DNS"),
          Swimmer(0, 1, None, None, None, None, "OK", "DNS")}

RankEntries ==
    {Swimmer(0, n, None, None, None, rt, mk, "OK") :
        n \in NameValues, rt \in ResultValues, mk \in MarkValues}
    \cup {Swimmer(0, 1, None, None, None, 0, "OK", "DNS")}

(* the rows of an imported start list: status OK, no result, names by row *)
ImportedEntries ==
    {Swimmer(0, 0, 1, p[1], p[2], None, "OK", "OK") :
        p \in {<<0, 1>>, <<1, 1>>, <<1, 2>>, <<2, 1>>}}
    \cup {Swimmer(0, 0, None, None, None, None, "OK", "OK")}

ImportedRosters ==
    {[id \in RowIds |-> [r[id] EXCEPT !.full_name = id]] :
        r \in Rosters(ImportedEntries, RowIds)}


(* the results handed to save_event_results: one row, the time text blank,
   not a time, or one centisecond *)
ResultRows ==
    {<<<<>>, "OK">>, <<<<" ", "x">>, "DQ">>, <<<<"0", ",", "0", "1">>, "OK">>}

Results == {<<<<id, r[1], r[2]>>>> : id \in RowIds, r \in ResultRows}

(* the times handed to format_cs: every minute up to MaxMinutes with the
   first and last second and centisecond of it *)
CodecValues ==
    {(m * 60 + s) * 100 + c : m \in 0..MaxMinutes, s \in {0, 59}, c \in {0, 9, 99}}

(* the files import_excel raises ExcelImportError for *)
BadFiles == {"missing", "empty", "not_xlsx", "corrupt"}

NoCodec ==
    /\ cs_value = None
    /\ cs_text = NoText
    /\ cs_parsed = None

NoStore ==
    /\ table = <<>>
    /\ lanes_count = 0
    /\ pc = "none"
    /\ snap = <<>>
    /\ marked = {}
    /\ reseeded = FALSE

NoCall ==
    /\ call = "none"
    /\ out = <<>>
    /\ prev = <<>>
    /\ places = <<>>
    /\ listed = <<>>
    /\ after = <<>>

InitSoft ==
    /\ mode = "soft"
    /\ roster \in Rosters(SoftEntries, Ids)
    /\ lanes_arg = 0
    /\ NoCall /\ NoStore /\ NoCodec

InitFull ==
    /\ mode = "full"
    /\ roster \in Rosters(FullEntries, Ids)
    /\ lanes_arg \in LaneCounts
    /\ NoCall /\ NoStore /\ NoCodec

InitRank ==
    /\ mode = "rank"
    /\ roster \in Rosters(RankEntries, Ids)
    /\ lanes_arg = 0
    /\ NoCall /\ NoStore /\ NoCodec

InitStore ==
    /\ mode = "store"
    /\ roster = <<>>
    /\ lanes_arg = 0
    /\ NoCall
    /\ table \in ImportedRosters
    /\ lanes_count \in StoreLaneCounts
    /\ pc = "import"
    /\ snap = <<>>
    /\ marked = {}
    /\ reseeded = FALSE
    /\ NoCodec

(* an imported event of two lanes, the swimmers on the lanes 1, 2, ... of
   heat 1, before any result is entered *)
InitResults ==
    /\ mode = "results"
    /\ roster = <<>>
    /\ lanes_arg = 0
    /\ NoCall
    /\ table = [id \in RowIds |-> Swimmer(id, id, 1, 1, id, None, "OK", "OK")]
    /\ lanes_count = 2
    /\ pc = "import"
    /\ snap = <<>>
    /\ marked = {}
    /\ reseeded = FALSE
    /\ NoCodec

InitCodec ==
    /\ mode = "codec"
    /\ roster = <<>>
    /\ lanes_arg = 0
    /\ NoCall /\ NoStore
    /\ cs_value \in CodecValues
    /\ cs_text = NoText
    /\ cs_parsed = None

Init == InitSoft \/ InitFull \/ InitRank \/ InitStore \/ InitResults \/ InitCodec

----------------------------------------------------------------------------
(* The calls of the functions *)

CallCompress ==
    /\ mode = "soft" /\ call = "none"
    /\ out' = compress_lanes_within_heats(roster)
    /\ after' = InPlace(roster, out')
    /\ call' = "soft"
    /\ UNCHANGED <<mode, roster, lanes_arg, prev, places, listed>>
    /\ UNCHANGED storeVars
    /\ UNCHANGED codecVars

CallCompressAgain ==
    /\ mode = "soft" /\ call = "soft"
    /\ prev' = out
    /\ out' = compress_lanes_within_heats(out)
    /\ after' = InPlace(out, out')
    /\ call' = "soft_again"
    /\ UNCHANGED <<mode, roster, lanes_arg, places, listed>>
    /\ UNCHANGED storeVars
    /\ UNCHANGED codecVars

CallFullReseed ==
    /\ mode = "full" /\ call = "none"
    /\ out' = full_reseed(roster, lanes_arg)
    /\ after' = InPlace(roster, out')
    /\ call' = "full"
    /\ UNCHANGED <<mode, roster, lanes_arg, prev, places, listed>>
    /\ UNCHANGED storeVars
    /\ UNCHANGED codecVars

(* the same swimmers handed to full_reseed in the opposite order *)
Reversed(swimmers) == [i \in 1..Len(swimmers) |-> swimmers[Len(swimmers) + 1 - i]]

CallFullReseedReversed ==
    /\ mode = "full" /\ call = "full"
    /\ prev' = out
    /\ out' = full_reseed(Reversed(roster), lanes_arg)
    /\ after' = InPlace(Reversed(roster), out')
    /\ call' = "full_reversed"
    /\ UNCHANGED <<mode, roster, lanes_arg, places, listed>>
    /\ UNCHANGED storeVars
    /\ UNCHANGED codecVars

CallRank(grouped) ==
    /\ mode = "rank" /\ call = "none"
    /\ out' = Ranked(roster)
    /\ places' = Places(Ranked(roster))
    /\ listed' = ProtocolRows(roster, grouped)
    /\ after' = roster
    /\ call' = "rank"
    /\ UNCHANGED <<mode, roster, lanes_arg, prev>>
    /\ UNCHANGED storeVars
    /\ UNCHANGED codecVars

(* a time is formatted and the text is parsed again *)
FormatAndParse ==
    /\ mode = "codec" /\ call = "none"
    /\ cs_text' = format_cs(cs_value)
    /\ cs_parsed' = parse_seed_time_to_cs(cs_text')
    /\ call' = "codec"
    /\ UNCHANGED <<mode, roster, lanes_arg, out, prev, places, listed, after, cs_value>>
    /\ UNCHANGED storeVars

(* The operations of the service on the stored event *)

(* what an earlier call returned is gone *)
NoReturn ==
    /\ call' = "none"
    /\ out' = <<>> /\ prev' = <<>> /\ places' = <<>> /\ listed' = <<>> /\ after' = <<>>
    /\ UNCHANGED <<mode, roster, lanes_arg>>
    /\ UNCHANGED codecVars

(* mark_dns that reseeds the event after marking *)
MarkDns_thenReseed(swimmer_ids) ==
    /\ mode \in StoreModes
    /\ table' = reseed_event(set_dns(table, swimmer_ids), lanes_count, "soft")
    /\ pc' = "mark_dns"
    /\ snap' = table
    /\ marked' = swimmer_ids
    /\ UNCHANGED reseeded
    /\ UNCHANGED lanes_count
    /\ NoReturn

MarkDns(swimmer_ids) ==
    /\ mode \in StoreModes
    /\ table' = set_dns(table, swimmer_ids)
    /\ pc' = "mark_dns"
    /\ snap' = table
    /\ marked' = swimmer_ids
    /\ UNCHANGED reseeded
    /\ UNCHANGED lanes_count
    /\ NoReturn

(* restore_swimmers is explored on the event that has no results yet *)

(* restore_swimmers that makes the rows ACTIVE and does not reseed *)
RestoreSwimmers_noReseed(swimmer_ids, m) ==
    /\ mode = "store"
    /\ table' = repo_restore_swimmers(table, swimmer_ids)
    /\ pc' = IF m = "full" THEN "restore_full" ELSE "restore_soft"
    /\ snap' = IF pc = "mark_dns" /\ swimmer_ids = marked THEN snap ELSE <<>>
    /\ marked' = swimmer_ids
    /\ UNCHANGED reseeded
    /\ UNCHANGED lanes_count
    /\ NoReturn

RestoreSwimmers(swimmer_ids, m) ==
    /\ mode = "store"
    /\ table' = reseed_event(repo_restore_swimmers(table, swimmer_ids), lanes_count, m)
    /\ pc' = IF m = "full" THEN "restore_full" ELSE "restore_soft"
    /\ snap' = IF pc = "mark_dns" /\ swimmer_ids = marked THEN snap ELSE <<>>
    /\ marked' = swimmer_ids
    /\ reseeded' = (reseeded \/ m = "full")
    /\ UNCHANGED lanes_count
    /\ NoReturn

ReseedEvent(m) ==
    /\ mode \in StoreModes
    /\ table' = reseed_event(table, lanes_count, m)
    /\ pc' = IF m = "full" THEN "reseed_full" ELSE "reseed_soft"
    /\ snap' = IF pc = "mark_dns" THEN snap ELSE <<>>
    /\ marked' = IF pc = "mark_dns" THEN marked ELSE {}
    /\ reseeded' = (reseeded \/ m = "full")
    /\ UNCHANGED lanes_count
    /\ NoReturn

(* import_startlist of a file that import_excel refuses with ExcelImportError:
   the store is wiped before the file is looked at, and the error leaves the
   service with no event *)
ImportStartlist(excel_path) ==
    /\ mode \in StoreModes
    /\ excel_path \in BadFiles
    /\ table' = clear_all(table)
    /\ lanes_count' = 0
    /\ pc' = "import_failed"
    /\ snap' = table
    /\ marked' = {}
    /\ reseeded' = FALSE
    /\ mode' = "empty"
    /\ call' = "none"
    /\ out' = <<>> /\ prev' = <<>> /\ places' = <<>> /\ listed' = <<>> /\ after' = <<>>
    /\ UNCHANGED <<roster, lanes_arg>>
    /\ UNCHANGED codecVars

SaveEventResults(results) ==
    /\ mode = "results"
    /\ table' = save_event_results(table, results)
    /\ pc' = "save_event_results"
    /\ snap' = <<>>
    /\ marked' = {}
    /\ UNCHANGED <<lanes_count, reseeded>>
    /\ NoReturn

BuildProtocol(grouped) ==
    LET swimmers == list_swimmers(table)
    IN  /\ out' = Ranked(swimmers)
        /\ places' = Places(Ranked(swimmers))
        /\ listed' = ProtocolRows(swimmers, grouped)
        /\ prev' = <<>> /\ after' = <<>>
        /\ snap' = <<>>
        /\ marked' = {}
        /\ UNCHANGED <<mode, roster, lanes_arg, table, lanes_count, reseeded>>
        /\ UNCHANGED codecVars

BuildEventProtocol(grouped) ==
    /\ mode = "results"
    /\ BuildProtocol(grouped)
    /\ call' = "event_protocol"
    /\ pc' = "build_event_protocol"

(* the store of the model holds one event: one block *)
BuildFinalProtocol(grouped) ==
    /\ mode = "results"
    /\ BuildProtocol(grouped)
    /\ call' = "final_protocol"
    /\ pc' = "build_final_protocol"

Next ==
    \/ CallCompress
    \/ CallCompressAgain
    \/ CallFullReseed
    \/ CallFullReseedReversed
    \/ \E grouped \in BOOLEAN : CallRank(grouped)
    \/ FormatAndParse
    \/ \E swimmer_ids \in SUBSET RowIds : MarkDns(swimmer_ids)
    \/ \E swimmer_ids \in SUBSET RowIds, m \in {"soft", "full"} : RestoreSwimmers(swimmer_ids, m)
    \/ \E m \in {"soft", "full"} : ReseedEvent(m)
    \/ \E excel_path \in BadFiles : ImportStartlist(excel_path)
    \/ \E results \in Results : SaveEventResults(results)
    \/ \E grouped \in BOOLEAN : BuildEventProtocol(grouped)
    \/ \E grouped \in BOOLEAN : BuildFinalProtocol(grouped)

Spec == Init /\ [][Next]_vars

----------------------------------------------------------------------------
(* Properties *)

Seeded == call \in {"soft", "soft_again", "full"}
ActiveIn(s) == {i \in 1..Len(s) : IsActive(s[i])}
Pos(s) == <<s.heat, s.lane>>
ById(s, id) == s[CHOOSE i \in 1..Len(s) : s[i].id = id]

(* the ACTIVE swimmers of every heat of s hold the lanes 1..k, each once *)
LanesContiguous(s) ==
    \A i \in ActiveIn(s) :
        LET same == {j \in ActiveIn(s) : s[j].heat = s[i].heat}
        IN  /\ {s[j].lane : j \in same} = 1..Cardinality(same)
            /\ \A j \in same : j # i => Pos(s[j]) # Pos(s[i])

(* C1: after compress_lanes_within_heats or full_reseed (lanes_count >= 1), in
   every heat present among the ACTIVE swimmers of the output the ACTIVE lanes
   are exactly 1..k, k the number of ACTIVE swimmers of the heat, and no two
   ACTIVE swimmers share a (heat, lane) pair. *)
C1_LaneContiguity == Seeded => LanesContiguous(out)

(* soft reseed of two ACTIVE swimmers of heat 1 on lanes 1 and 1000: a gap *)
C1_Witness ==
    /\ call = "soft"
    /\ \E i, j \in ActiveIn(roster) :
          /\ Pos(roster[i]) = <<1, 1>>
          /\ Pos(roster[j]) = <<1, BigLane>>
          /\ ById(out, roster[j].id).lane = 2

(* C2: in the output of either reseed function, and in every stored state
   reached by mark_dns, restore_swimmers and reseed_event, every swimmer whose
   status is DNS has heat = None and lane = None. *)
C2_AbsentHasNoPosition ==
    /\ Seeded => \A i \in 1..Len(out) : IsDns(out[i]) => Pos(out[i]) = <<None, None>>
    /\ mode = "store" =>
          \A id \in RowIds : IsDns(table[id]) => Pos(table[id]) = <<None, None>>

(* a stored swimmer that had a position is DNS after mark_dns and a reseed *)
C2_Witness ==
    /\ pc \in {"reseed_soft", "reseed_full"}
    /\ snap # <<>>
    /\ \E id \in marked : snap[id].heat # None /\ IsDns(table[id])

(* C3: full_reseed gives the ACTIVE swimmer at zero-based position r of the
   ACTIVE sequence heat = r div lanes_count + 1 and lane = r mod lanes_count + 1,
   whatever position it had; DNS swimmers take no position in the sequence. *)
C3_FullReseedPositions ==
    call = "full" =>
        /\ {out[i].id : i \in ActiveIn(out)} = {roster[i].id : i \in ActiveIn(roster)}
        /\ \A i \in ActiveIn(out) :
              LET r == Cardinality({j \in ActiveIn(out) : j < i})
              IN  /\ out[i].heat = (r \div lanes_arg) + 1
                  /\ out[i].lane = (r % lanes_arg) + 1

(* a DNS swimmer with the fastest seed time, and an ACTIVE one moved to heat 2 *)
C3_Witness ==
    /\ call = "full"
    /\ \E i \in 1..Len(roster) : IsDns(roster[i]) /\ roster[i].seed_time_cs = 0
    /\ \E i \in ActiveIn(out) : out[i].heat = 2 /\ ById(roster, out[i].id).heat = None
    /\ \E i \in ActiveIn(roster) : roster[i].seed_time_cs = 1

(* C4: in full_reseed, of two ACTIVE swimmers with seed times the one with the
   strictly smaller seed time gets the smaller (heat, lane); equal seed times
   are ordered by name. *)
C4_SeedOrder ==
    call = "full" =>
        \A i, j \in ActiveIn(out) :
            (out[i].seed_time_cs # None /\ out[j].seed_time_cs # None) =>
                /\ out[i].seed_time_cs < out[j].seed_time_cs
                      => LexLess(Pos(out[i]), Pos(out[j]))
                /\ (out[i].seed_time_cs = out[j].seed_time_cs
                        /\ out[i].full_name < out[j].full_name)
                      => LexLess(Pos(out[i]), Pos(out[j]))

(* C5: in full_reseed every ACTIVE swimmer without a seed time gets a larger
   (heat, lane) than every ACTIVE swimmer with one, whatever their names. *)
C5_NullSeedLast ==
    call = "full" =>
        \A i, j \in ActiveIn(out) :
            (out[i].seed_time_cs = None /\ out[j].seed_time_cs # None)
                => LexLess(Pos(out[j]), Pos(out[i]))

(* a swimmer without seed time whose name sorts first, after one with seed 0 *)
C5_Witness ==
    /\ call = "full"
    /\ \E i, j \in ActiveIn(out) :
          /\ out[i].seed_time_cs = None /\ out[i].full_name = 1
          /\ out[j].seed_time_cs = 0 /\ out[j].full_name = 2

(* C6: compress_lanes_within_heats leaves the heat of every ACTIVE swimmer whose
   heat is not None as it was. *)
C6_HeatsKept ==
    call = "soft" =>
        \A i \in ActiveIn(roster) :
            roster[i].heat # None => ById(out, roster[i].id).heat = roster[i].heat

(* the rows of rows that are ACTIVE and in a heat *)
Placed(rows) == {id \in DOMAIN rows : IsActive(rows[id]) /\ rows[id].heat # None}

RowsContiguous(rows) ==
    \A id \in Placed(rows) :
        LET same == {o \in Placed(rows) : rows[o].heat = rows[id].heat}
        IN  {rows[o].lane : o \in same} = 1..Cardinality(same)

(* C7: from a stored roster whose ACTIVE lanes are contiguous in every heat,
   after swimmers of one heat h are marked DNS and the event is soft reseeded,
   every ACTIVE swimmer of another heat has the heat and lane it had. *)
C7_SoftLocality ==
    (/\ pc = "reseed_soft"
     /\ snap # <<>>
     /\ marked # {}
     /\ RowsContiguous(snap)
     /\ \A id \in marked : id \in Placed(snap)
     /\ \A a, b \in marked : snap[a].heat = snap[b].heat)
    => \A id \in Placed(snap) \ marked :
          (\A a \in marked : snap[id].heat # snap[a].heat)
              => Pos(table[id]) = Pos(snap[id])

(* C8: in compress_lanes_within_heats, of two ACTIVE swimmers of one heat with
   lanes a < b the first gets the smaller new lane, and a swimmer without lane
   gets a larger new lane than every swimmer of its group that has one. *)
C8_LaneOrder ==
    call = "soft" =>
        \A i, j \in ActiveIn(roster) :
            LET a == roster[i]
                b == roster[j]
                na == ById(out, a.id).lane
                nb == ById(out, b.id).lane
            IN  /\ (a.heat = b.heat /\ a.lane # None /\ b.lane # None /\ a.lane < b.lane)
                      => na < nb
                /\ (GroupHeat(a) = GroupHeat(b) /\ a.lane # None /\ b.lane = None)
                      => na < nb

(* C9: compress_lanes_within_heats applied to its own output returns the same
   list, in the same order, with the same heat and lane for every swimmer. *)
C9_Idempotent == call = "soft_again" => out = prev

(* the first application moved swimmers, the second had DNS and ACTIVE ones *)
C9_Witness ==
    /\ call = "soft_again"
    /\ \E i \in 1..Len(prev) : IsDns(prev[i])
    /\ \E i \in ActiveIn(roster) : Pos(ById(prev, roster[i].id)) # Pos(roster[i])
    /\ \E i \in 1..Len(roster) : prev[i].id # roster[i].id

(* C10: a swimmer has a place only if its result mark is the valid one and its
   result time is present, and the swimmers without a place consume no place
   number: the k-th swimmer of the ranking that may place has place k. *)
MayPlace(s) == s.result_status = "OK" /\ s.result_time_cs # None

C10_PlaceNeedsValidMark ==
    call = "rank" =>
        \A i \in 1..Len(out) :
            /\ out[i].id \in DOMAIN places => MayPlace(out[i])
            /\ MayPlace(out[i]) =>
                  /\ out[i].id \in DOMAIN places
                  /\ places[out[i].id] = Cardinality({j \in 1..i : MayPlace(out[j])})

(* C11: the ranked sequence holds every ACTIVE swimmer of the roster exactly
   once, ordered by result time ascending with the swimmers without a time
   after those with one and ties broken by name; of two swimmers with a place,
   the one with the strictly smaller result time, 0 included, has the strictly
   smaller place. *)
RankedBefore(a, b) ==
    \/ a.result_time_cs # None /\ b.result_time_cs = None
    \/ a.result_time_cs # None /\ b.result_time_cs # None
          /\ a.result_time_cs < b.result_time_cs
    \/ a.result_time_cs = b.result_time_cs /\ a.full_name < b.full_name

C11_RankedByTime ==
    call = "rank" =>
        /\ {out[i].id : i \in 1..Len(out)} = {roster[i].id : i \in ActiveIn(roster)}
        /\ Len(out) = Cardinality(ActiveIn(roster))
        /\ \A i, j \in 1..Len(out) : RankedBefore(out[i], out[j]) => i < j
        /\ \A i, j \in 1..Len(out) :
              (/\ out[i].id \in DOMAIN places /\ out[j].id \in DOMAIN places
               /\ out[i].result_time_cs < out[j].result_time_cs)
                  => places[out[i].id] < places[out[j].id]

(* C12: the ranking holds no DNS swimmer, neither in the ordered list nor in
   the place mapping, whether or not the swimmer has a stored result time. *)
C12_RankingSkipsDns ==
    call = "rank" =>
        \A i \in 1..Len(roster) :
            IsDns(roster[i]) =>
                /\ \A j \in 1..Len(out) : out[j].id # roster[i].id
                /\ roster[i].id \notin DOMAIN places

(* a DNS swimmer with a stored time next to a placed ACTIVE swimmer *)
C12_Witness ==
    /\ call = "rank"
    /\ \E i \in 1..Len(roster) : IsDns(roster[i]) /\ roster[i].result_time_cs # None
    /\ DOMAIN places # {}

(* C13: the rows of the final protocol hold no DNS swimmer and no swimmer whose
   result mark is DQ, and hold every other swimmer of the event. *)
Excluded(s) == IsDns(s) \/ s.result_status = "DQ"

C13_FinalListing ==
    call = "rank" =>
        \A i \in 1..Len(roster) :
            (\E j \in 1..Len(listed) : listed[j] = roster[i].id) <=> ~Excluded(roster[i])

AllPlaced(rows) == \A id \in DOMAIN rows : IsActive(rows[id]) => rows[id].heat # None

C18_MarkOnlyMarks ==
    pc = "mark_dns" =>
        \A id \in RowIds :
            /\ id \in marked => IsDns(table[id]) /\ Pos(table[id]) = <<None, None>>
            /\ id \notin marked =>
                  /\ Pos(table[id]) = Pos(snap[id])
                  /\ table[id].status = snap[id].status

(* the swimmer on lane 1 was marked and the one on lane 2 stays on lane 2 *)
C18_Witness ==
    /\ pc = "mark_dns"
    /\ \E a \in marked, b \in RowIds \ marked :
          /\ Pos(snap[a]) = <<1, 1>> /\ Pos(snap[b]) = <<1, 2>>
          /\ Pos(table[b]) = <<1, 2>>

(* the stored positions of the ACTIVE rows are those full_reseed gives them *)
FullySeeded(rows, lanes) ==
    LET seeded == full_reseed(list_swimmers(rows), lanes)
    IN  \A i \in ActiveIn(seeded) : Pos(rows[seeded[i].id]) = Pos(seeded[i])

(* C19: when restore_swimmers(event, ids, mode) returns, every listed swimmer
   is ACTIVE with a heat and a lane, and for mode = full the stored positions
   of all ACTIVE swimmers are those of full_reseed over the whole roster with
   the lane count of the event. *)
C19_RestoreReseeds ==
    /\ pc \in {"restore_soft", "restore_full"} =>
          \A id \in marked :
              /\ IsActive(table[id])
              /\ table[id].heat # None /\ table[id].lane # None
    /\ pc = "restore_full" => AllPlaced(table) /\ FullySeeded(table, lanes_count)

(* a marked swimmer that had lost its position is back after a full restore,
   next to a swimmer that was not marked *)
C19_Witness ==
    /\ pc = "restore_full"
    /\ snap # <<>>
    /\ \E a \in marked, b \in RowIds \ marked :
          /\ IsActive(table[a]) /\ table[a].heat # None
          /\ IsActive(table[b])

(* C20: after import_startlist the swimmers of the event have the heat and lane
   of a full reseed by seed time, whatever the heat/lane text of the file. *)
C20_ImportReseeds ==
    pc = "import" => AllPlaced(table) /\ FullySeeded(table, lanes_count)

(* C14: build_event_protocol, build_final_protocol and save_event_results
   leave the heat, lane and status of every swimmer as they were. *)
C14_RankingKeepsAssignments ==
    [][pc' \in {"save_event_results", "build_event_protocol", "build_final_protocol"}
          => \A id \in DOMAIN table :
                /\ Pos(table'[id]) = Pos(table[id])
                /\ table'[id].status = table[id].status]_vars

(* the final protocol of an event with a placed swimmer, a DNS swimmer and a
   swimmer that has a heat: results were saved and a swimmer was marked *)
C14_Witness ==
    /\ pc = "build_final_protocol"
    /\ DOMAIN places # {}
    /\ \E a, b \in RowIds : IsDns(table[a]) /\ table[b].heat # None
    /\ \E a \in RowIds : table[a].result_status = "DQ"

(* C16: the status of a swimmer changes only from ACTIVE to DNS in a mark_dns
   that lists it and from DNS to ACTIVE in a restore_swimmers that lists it;
   reseed_event with its write-back, save_event_results and the building of a
   protocol change no status. *)
C16_StatusTransitions ==
    [][\A id \in DOMAIN table \cap DOMAIN table' :
          table'[id].status # table[id].status =>
              \/ /\ pc' = "mark_dns" /\ id \in marked'
                 /\ IsActive(table[id]) /\ IsDns(table'[id])
              \/ /\ pc' \in {"restore_soft", "restore_full"} /\ id \in marked'
                 /\ IsDns(table[id]) /\ IsActive(table'[id])]_vars

(* a swimmer went from ACTIVE to DNS and back, next to a swimmer that stayed
   DNS through the reseed of the restore *)
C16_Witness ==
    /\ pc = "restore_soft"
    /\ snap # <<>>
    /\ \E a \in marked : IsActive(snap[a]) /\ IsActive(table[a])
    /\ \E b \in RowIds \ marked : IsDns(snap[b]) /\ IsDns(table[b])

(* C21: for every centisecond value v >= 0, parse_seed_time_to_cs(format_cs(v))
   is v. *)
C21_CodecRoundTrip == call = "codec" => cs_parsed = cs_value

(* the parts of C22 *)
C22_StoredAsNoTime ==
    mode = "results" =>
        \A id \in DOMAIN table :
            (/\ table[id].result_time_raw # NoText
             /\ parse_seed_time_to_cs(table[id].result_time_raw) = None)
                => table[id].result_time_cs = None

C22_NoTimeRanksLast ==
    call \in {"rank", "event_protocol", "final_protocol"} =>
        \A i \in 1..Len(out) :
            out[i].result_time_cs = None =>
                /\ out[i].id \notin DOMAIN places
                /\ \A j \in 1..Len(out) : out[j].result_time_cs # None => j < i

C22_NoSeedLastFull ==
    call = "full" =>
        \A i, j \in ActiveIn(out) :
            (out[i].seed_time_cs = None /\ out[j].seed_time_cs # None)
                => /\ j < i
                   /\ LexLess(Pos(out[j]), Pos(out[i]))

C22_NoSeedLastSoft ==
    call = "soft" =>
        \A i, j \in ActiveIn(roster) :
            (/\ GroupHeat(roster[i]) = GroupHeat(roster[j])
             /\ roster[i].lane = roster[j].lane
             /\ roster[i].seed_time_cs = None /\ roster[j].seed_time_cs # None)
                => ById(out, roster[j].id).lane < ById(out, roster[i].id).lane

(* C22: a result text that parse_seed_time_to_cs does not recognise is stored
   by save_event_results as no result time; in the ranking a swimmer without a
   result time comes after every swimmer with one and has no place; and in the
   order of full_reseed, and among the swimmers of one heat and one lane in
   the order of compress_lanes_within_heats, a swimmer without a seed time
   comes after every swimmer with one. *)
C22_UnparseableSinks ==
    /\ C22_StoredAsNoTime
    /\ C22_NoTimeRanksLast
    /\ C22_NoSeedLastFull
    /\ C22_NoSeedLastSoft

(* C23: compress_lanes_within_heats puts an ACTIVE swimmer that has no heat
   into heat 1: after the call it has heat 1 and one of the lanes 1..k of the
   k ACTIVE swimmers of heat 1. *)
C23_NullHeatIsHeatOne ==
    call = "soft" =>
        \A i \in ActiveIn(roster) :
            roster[i].heat = None =>
                LET s == ById(out, roster[i].id)
                    k == Cardinality({j \in ActiveIn(out) : out[j].heat = DefaultHeat})
                IN  s.heat = DefaultHeat /\ s.lane \in 1..k

(* a swimmer without heat joined a swimmer of heat 1, next to one of heat 2 *)
C23_Witness ==
    /\ call = "soft"
    /\ \E i, j, l \in ActiveIn(roster) :
          /\ roster[i].heat = None
          /\ Pos(roster[j]) = <<1, 1>>
          /\ roster[l].heat = 2
          /\ ById(out, roster[i].id).lane = 2

(* the parts of C24 *)
SameButPosition(a, b) == [a EXCEPT !.heat = b.heat, !.lane = b.lane] = b

IsPermutation(given, returned) ==
    /\ Len(returned) = Len(given)
    /\ \A i \in 1..Len(given) :
          /\ Cardinality({j \in 1..Len(returned) : returned[j].id = given[i].id}) = 1
          /\ SameButPosition(given[i], ById(returned, given[i].id))

(* C24: each reseed function returns a permutation of its input: every id of
   the input is in the returned list exactly once and no other id is, and
   every swimmer has the status, name, seed time and result fields of the
   input; only heat and lane may differ. *)
C24_Permutation ==
    /\ call \in {"soft", "full"} => IsPermutation(roster, out)
    /\ call = "soft_again" => IsPermutation(prev, out)

(* the returned order differs from the given one, and a DNS swimmer and an
   ACTIVE swimmer with a result are among the swimmers *)
C24_Witness ==
    /\ call \in {"soft", "full"}
    /\ \E i \in 1..Len(roster) : out[i].id # roster[i].id
    /\ \E i \in 1..Len(roster) : IsDns(roster[i]) /\ roster[i].result_time_cs # None
    /\ \E i \in ActiveIn(roster) :
          /\ roster[i].result_status = "DQ"
          /\ Pos(ById(out, roster[i].id)) # Pos(roster[i])

(* C25: the places handed out for one event are exactly 1..k, each held by one
   swimmer, k being the number of swimmers with a place: no place is skipped
   and none is shared, also by swimmers of equal result time. *)
C25_PlacesDense ==
    call \in {"rank", "event_protocol", "final_protocol"} =>
        {places[id] : id \in DOMAIN places} = 1..Cardinality(DOMAIN places)

(* two ranked swimmers of one result time, with different places *)
C25_Witness ==
    /\ call = "rank"
    /\ \E i, j \in 1..Len(out) :
          /\ i # j
          /\ out[i].result_time_cs # None
          /\ out[i].result_time_cs = out[j].result_time_cs
          /\ out[i].full_name # out[j].full_name
          /\ places[out[i].id] # places[out[j].id]

(* C26: full reseed depends on the roster and not on the order the list is
   given in: with the same lanes_count, full_reseed of the list and of the
   same list in another order give every swimmer id the same heat and lane. *)
C26_OrderIndependent ==
    call = "full_reversed" =>
        \A i \in 1..Len(roster) :
            Pos(ById(out, roster[i].id)) = Pos(ById(prev, roster[i].id))

(* C27: from an event that was fully reseeded with its lanes_count on, after
   any sequence of mark_dns, restore_swimmers (soft or full) and reseed_event
   (soft or full), every ACTIVE swimmer's lane is at most the lanes_count of
   the event: no heat holds more ACTIVE swimmers than there are lanes. *)
C27_LaneCapacity ==
    reseeded =>
        \A id \in DOMAIN table :
            IsActive(table[id]) /\ table[id].lane # None => table[id].lane <= lanes_count

(* C28: mark_dns([c]) followed by restore_swimmers([c], mode = soft) keeps the
   heats: c is in the heat it was in before it was marked DNS, and every other
   swimmer of the event is in the heat it was in before. *)
C28_SoftRestoreKeepsHeat ==
    pc = "restore_soft" /\ snap # <<>> /\ Cardinality(marked) = 1 =>
        \A id \in DOMAIN table : table[id].heat = snap[id].heat

(* C29: a failed import leaves the stored meet unchanged: when
   import_startlist raises ExcelImportError, the event and the swimmers
   stored before the call are all still stored, with the same fields. *)
C29_FailedImportKeepsStore ==
    pc = "import_failed" => table = snap /\ lanes_count # 0

====
